---- MODULE Spec2Model ----
(***************************************************************************)
(* Model of src/main.py: a FastAPI relay with an in-memory command queue   *)
(* (command_queue) and an in-memory player snapshot store (player_data,    *)
(* guarded by player_data_lock).                                           *)
(*                                                                         *)
(* Every handler is an `async def` coroutine without an await, served by   *)
(* the single event loop that uvicorn.run starts: the loop runs one        *)
(* handler from entry to return before it starts the next.  The handlers   *)
(* are modelled statement by statement (pc holds the source line a request *)
(* is at) and the variable `loop` is the task the event loop is executing. *)
(*                                                                         *)
(* Encoding of Python/JSON values:                                         *)
(*   None, or a field left out of a request body  ->  << >>                *)
(*   a present optional value v                   ->  << v >>              *)
(*   list                                         ->  sequence             *)
(*   dict / pydantic model                        ->  record               *)
(*   float                                        ->  integer (100.0=100)  *)
(***************************************************************************)
EXTENDS Integers, Sequences, FiniteSets, TLC

\* ---------------------------------------------------------------- bounds
\* request slots: the number of HTTP requests in flight at the same time
MaxReqs == 2
\* requests accepted in a run of the queue endpoints only
MaxQueueOps == 5
\* requests accepted in a run of the store endpoints only
MaxStoreOps == 4
\* requests accepted in a run that mixes queue and store endpoints
MaxOps == 3
\* longest queue the racing polls start from
MaxQueue == 3
\* requests accepted in a run of the store endpoints under fair scheduling
MaxLiveOps == 3
\* requests accepted in a run of the inventory endpoint, submit and poll
MaxInventoryOps == 3
\* requests accepted in a run of the regear endpoint, submit and poll
MaxRegearOps == 3
\* requests accepted in a run of all the endpoints
MaxAllOps == 2

Reqs == 1..MaxReqs

None == << >>
Some(v) == << v >>
NoTask == 0

\* ------------------------------------------------------------ data model
\* class Command: player optional (default None), command and args required.
\* The result is << >> when pydantic raises a validation error, << model >>
\* otherwise.
CommandDefaulting(b) ==
    Some([player  |-> IF b.player = None THEN Some("any") ELSE b.player,
          command |-> IF b.command = None THEN "" ELSE b.command[1],
          args    |-> IF b.args = None THEN << >> ELSE b.args[1]])

Command(b) ==
    IF b.command = None \/ b.args = None
    THEN None
    ELSE Some([player  |-> IF b.player = None THEN None ELSE b.player,
               command |-> b.command[1],
               args    |-> b.args[1]])

\* cmd.dict(): a fresh dict with the model's three fields
CommandDict(cmd) ==
    [player |-> cmd.player, command |-> cmd.command, args |-> cmd.args]

\* request bodies of POST /api/command the model submits
CommandBodies ==
    { [player |-> None,          command |-> Some("give"), args |-> Some(<<"sword", "1">>)],
      [player |-> Some("Alice"), command |-> Some("give"), args |-> Some(<<"1", "sword">>)],
      [player |-> Some("Bob"),   command |-> Some(""),     args |-> Some(<< >>)],
      [player |-> Some("Alice"), command |-> None,         args |-> Some(<<"sword", "1">>)],
      [player |-> None,          command |-> Some("give"), args |-> None] }

\* class CoordsInfo: x, y, z and world are all required
CoordsInfo(b) ==
    IF b.x = None \/ b.y = None \/ b.z = None \/ b.world = None
    THEN None
    ELSE Some([x |-> b.x[1], y |-> b.y[1], z |-> b.z[1], world |-> b.world[1]])

\* class ItemInfo: material and amount required; the other fields take the
\* defaults of lines 50-59 when the body leaves them out.  The bodies of this
\* model only ever carry material, amount and displayName.
ItemInfo(b) ==
    IF b.material = None \/ b.amount = None
    THEN None
    ELSE Some([material             |-> b.material[1],
               amount               |-> b.amount[1],
               displayName          |-> IF b.displayName = None THEN Some("") ELSE b.displayName,
               damage               |-> Some(0),
               maxDurability        |-> Some(0),
               durabilityPercentage |-> Some(100),
               enchantments         |-> Some(<< >>),
               lore                 |-> Some(<< >>),
               customModelData      |-> None,
               attributeModifiers   |-> Some(<< >>),
               itemFlags            |-> Some(<< >>),
               nbtTags              |-> Some(<< >>)])

\* an Optional[ItemInfo] = None field: a body that leaves it out validates and
\* gives None, a body that carries it must carry a valid item
OptItemValid(ob) == ob = None \/ ItemInfo(ob[1]) # None

OptItem(ob) == IF ob = None THEN None ELSE ItemInfo(ob[1])

\* class ArmorInfo: four optional slots, each defaulting to None
ArmorInfo(b) ==
    IF /\ OptItemValid(b.helmet) /\ OptItemValid(b.chestplate)
       /\ OptItemValid(b.leggings) /\ OptItemValid(b.boots)
    THEN Some([helmet     |-> OptItem(b.helmet),
               chestplate |-> OptItem(b.chestplate),
               leggings   |-> OptItem(b.leggings),
               boots      |-> OptItem(b.boots)])
    ELSE None

\* an Optional[ArmorInfo] = None field
OptArmorValid(ob) == ob = None \/ ArmorInfo(ob[1]) # None

OptArmorAsEmptySlots(ob) ==
    IF ob = None
    THEN Some([helmet |-> None, chestplate |-> None, leggings |-> None, boots |-> None])
    ELSE ArmorInfo(ob[1])

OptArmor(ob) == IF ob = None THEN None ELSE ArmorInfo(ob[1])

\* class PlayerInfo: name and coords required, the rest optional with the
\* defaults of lines 117-125.  The bodies of this model only ever carry name,
\* coords, armor and currentAction.
PlayerInfoDefaultCoords(b) ==
    IF b.name = None \/ ~OptArmorValid(b.armor)
    THEN None
    ELSE Some([name           |-> b.name[1],
               coords         |-> IF b.coords = None \/ CoordsInfo(b.coords[1]) = None
                                  THEN [x |-> 0, y |-> 0, z |-> 0, world |-> "world"]
                                  ELSE CoordsInfo(b.coords[1])[1],
               inventory      |-> Some(<< >>),
               armor          |-> OptArmor(b.armor),
               offhand        |-> None,
               enderChest     |-> Some(<< >>),
               status         |-> None,
               world          |-> None,
               nearbyEntities |-> Some(<< >>),
               currentAction  |-> IF b.currentAction = None THEN Some("idle") ELSE b.currentAction,
               heldItem       |-> None])

PlayerInfo(b) ==
    IF \/ b.name = None
       \/ b.coords = None
       \/ CoordsInfo(b.coords[1]) = None
       \/ ~OptArmorValid(b.armor)
    THEN None
    ELSE Some([name           |-> b.name[1],
               coords         |-> CoordsInfo(b.coords[1])[1],
               inventory      |-> Some(<< >>),
               armor          |-> OptArmor(b.armor),
               offhand        |-> None,
               enderChest     |-> Some(<< >>),
               status         |-> None,
               world          |-> None,
               nearbyEntities |-> Some(<< >>),
               currentAction  |-> IF b.currentAction = None THEN Some("idle") ELSE b.currentAction,
               heldItem       |-> None])

\* .dict() of a nested optional model: None stays None, a model becomes a dict
ItemDict(oi) ==
    IF oi = None THEN None
    ELSE Some([f \in DOMAIN oi[1] |-> oi[1][f]])

ArmorDict(oa) ==
    IF oa = None THEN None
    ELSE Some([helmet     |-> ItemDict(oa[1].helmet),
               chestplate |-> ItemDict(oa[1].chestplate),
               leggings   |-> ItemDict(oa[1].leggings),
               boots      |-> ItemDict(oa[1].boots)])

\* info.dict(): a fresh dict holding every field of the model, nested models
\* converted to dicts
PlayerInfoDict(info) ==
    [name           |-> info.name,
     coords         |-> [x |-> info.coords.x, y |-> info.coords.y,
                         z |-> info.coords.z, world |-> info.coords.world],
     inventory      |-> info.inventory,
     armor          |-> ArmorDict(info.armor),
     offhand        |-> ItemDict(info.offhand),
     enderChest     |-> info.enderChest,
     status         |-> info.status,
     world          |-> info.world,
     nearbyEntities |-> info.nearbyEntities,
     currentAction  |-> info.currentAction,
     heldItem       |-> ItemDict(info.heldItem)]

\* request bodies of POST /api/coords the model publishes
CoordsBody(x, z) ==
    [x |-> Some(x), y |-> Some(64), z |-> z, world |-> Some("overworld")]

HelmetBody ==
    [material |-> Some("diamond_helmet"), amount |-> Some(1), displayName |-> None]

NoSlots ==
    [helmet |-> None, chestplate |-> None, leggings |-> None, boots |-> None]

PlayerBodies ==
    { [name |-> Some("Alice"), coords |-> Some(CoordsBody(1, Some(1))),
       armor |-> None, currentAction |-> None],
      [name |-> Some("Alice"), coords |-> Some(CoordsBody(2, Some(2))),
       armor |-> Some(NoSlots), currentAction |-> Some("mining")],
      [name |-> Some("Alice"), coords |-> Some(CoordsBody(3, Some(3))),
       armor |-> Some([NoSlots EXCEPT !.helmet = Some(HelmetBody)]),
       currentAction |-> Some("mining")],
      [name |-> Some("Bob"), coords |-> Some(CoordsBody(4, Some(4))),
       armor |-> Some([NoSlots EXCEPT !.helmet = Some(HelmetBody)]),
       currentAction |-> None],
      [name |-> Some("Alice"), coords |-> None,
       armor |-> Some([NoSlots EXCEPT !.helmet = Some(HelmetBody)]),
       currentAction |-> None],
      [name |-> Some("Bob"), coords |-> Some(CoordsBody(5, None)),
       armor |-> None, currentAction |-> Some("mining")] }

\* ----------------------------------------------------------------- state
VARIABLES
    command_queue,     \* line 21: the list of queued command dicts
    player_data,       \* line 24: dict from player name to snapshot dict
    player_data_lock,  \* line 25: TRUE while the threading.Lock is held
    loop,              \* the request whose handler the event loop is executing
    pc,                \* per request slot: "idle", "pending" or the source line it is at
    op,                \* per request slot: the endpoint the request is for
    req,               \* per request slot: the validated model the handler was called with
    log,               \* the completed calls in order of completion, with their responses
    budget,            \* requests the clients will still send
    queue0             \* the queue the run started from

vars == <<command_queue, player_data, player_data_lock, loop, pc, op, req, log, budget, queue0>>

\* the response FastAPI gives when the body fails the pydantic model
ValidationError == [status_code |-> 422]

\* The event loop executes the next statement of request r: r is the task it
\* is running, or it is running none and can start r.
ThreadPoolRuns(r) == TRUE

EventLoopRuns(r) == loop \in {NoTask, r}

\* list.append(c)
AppendAtHead(q, c) == <<c>> \o q

QueueAppend(q, c) == Append(q, c)

\* list.pop(0): the element returned and the list left
PeekHead(q) == <<Head(q), q>>

QueuePop0(q) == <<Head(q), Tail(q)>>

\* player_data[info.name] = info.dict()
MergeFields(store, info) ==
    [k \in DOMAIN store \cup {info.name} |->
        IF k # info.name THEN store[k]
        ELSE IF k \in DOMAIN store
             THEN [PlayerInfoDict(info) EXCEPT
                      !.armor = IF info.armor = None THEN store[k].armor ELSE @]
             ELSE PlayerInfoDict(info)]

StoreUnderWorld(store, info) ==
    [k \in DOMAIN store \cup {info.coords.world} |->
        IF k = info.coords.world THEN PlayerInfoDict(info) ELSE store[k]]

ReplaceWholeStore(store, info) ==
    [k \in {info.name} |-> PlayerInfoDict(info)]

Replace(store, info) ==
    [k \in DOMAIN store \cup {info.name} |->
        IF k = info.name THEN PlayerInfoDict(info) ELSE store[k]]

\* {"players": player_data}: the dict itself, not a copy of it
PlayersResponse == [players |-> [ref |-> "player_data"]]

\* the content of the mapping a read-states response refers to
Deref(m) == IF "ref" \in DOMAIN m THEN player_data ELSE m.val

\* a call completes: its response goes to the client, the slot is free again
Complete(r, entry) ==
    /\ log' = Append(log, entry)
    /\ pc' = [pc EXCEPT ![r] = "idle"]
    /\ req' = [req EXCEPT ![r] = None]
    /\ loop' = NoTask

Step(r, line) ==
    /\ pc' = [pc EXCEPT ![r] = line]
    /\ loop' = r

\* ------------------------------------------------------------------ init
InitWith(n) ==
    /\ command_queue = << >>
    /\ player_data = << >>
    /\ player_data_lock = FALSE
    /\ loop = NoTask
    /\ pc = [r \in Reqs |-> "idle"]
    /\ op = [r \in Reqs |-> "none"]
    /\ req = [r \in Reqs |-> None]
    /\ log = << >>
    /\ budget = n
    /\ queue0 = << >>

Init == InitWith(MaxOps)

InitQueue == InitWith(MaxQueueOps)

InitStore == InitWith(MaxStoreOps)

\* the bodies behind the queue the racing polls start from: those above and a
\* command without target and without args
PollBodies ==
    CommandBodies \cup
    { [player |-> None, command |-> Some("stop"), args |-> Some(<< >>)] }

\* the command dicts POST /api/command can put in the queue
QueuedCommands ==
    {CommandDict(Command(b)[1]) : b \in {x \in PollBodies : Command(x) # None}}

\* MaxReqs polls arrive together at a queue that holds up to MaxQueue commands
InitPoll ==
    /\ command_queue \in UNION {[1..k -> QueuedCommands] : k \in 0..MaxQueue}
    /\ queue0 = command_queue
    /\ player_data = << >>
    /\ player_data_lock = FALSE
    /\ loop = NoTask
    /\ pc = [r \in Reqs |-> "pending"]
    /\ op = [r \in Reqs |-> "poll"]
    /\ req = [r \in Reqs |-> None]
    /\ log = << >>
    /\ budget = 0

\* ------------------------------------------------------- request arrival
Arrive(r, o) ==
    /\ pc[r] = "idle"
    /\ budget > 0
    /\ budget' = budget - 1
    /\ pc' = [pc EXCEPT ![r] = "pending"]
    /\ op' = [op EXCEPT ![r] = o]
    /\ UNCHANGED <<command_queue, player_data, player_data_lock, loop, req, log, queue0>>

ArriveSubmit(r) == Arrive(r, "submit")

ArrivePoll(r) == Arrive(r, "poll")

ArrivePublish(r) == Arrive(r, "publish")

ArriveRead(r) == Arrive(r, "read")

\* ------------------------------------------ POST /api/command (140-144)
\* the body is validated against Command before the handler is entered
receive_command_enter(r) ==
    /\ pc[r] = "pending" /\ op[r] = "submit"
    /\ EventLoopRuns(r)
    /\ \E b \in CommandBodies :
          IF Command(b) = None
          THEN /\ Complete(r, [op |-> "submit", body |-> b, resp |-> ValidationError])
               /\ UNCHANGED <<command_queue, player_data, player_data_lock, op, budget, queue0>>
          ELSE /\ Step(r, "L143")
               /\ req' = [req EXCEPT ![r] = Some([body |-> b, cmd |-> Command(b)[1]])]
               /\ UNCHANGED <<command_queue, player_data, player_data_lock, op, log, budget, queue0>>

\* line 143: command_queue.append(cmd.dict())
receive_command_append(r) ==
    /\ pc[r] = "L143"
    /\ EventLoopRuns(r)
    /\ command_queue' = QueueAppend(command_queue, CommandDict(req[r][1].cmd))
    /\ Step(r, "L144")
    /\ UNCHANGED <<player_data, player_data_lock, op, req, log, budget, queue0>>

\* line 144: return {"status": "ok", "queued": cmd.dict()}
receive_command_return(r) ==
    /\ pc[r] = "L144"
    /\ EventLoopRuns(r)
    /\ Complete(r, [op |-> "submit", body |-> req[r][1].body,
                    resp |-> [status |-> "ok", queued |-> CommandDict(req[r][1].cmd)]])
    /\ UNCHANGED <<command_queue, player_data, player_data_lock, op, budget, queue0>>

\* ------------------------------------------- GET /api/command (146-150)
get_next_command_enter(r) ==
    /\ pc[r] = "pending" /\ op[r] = "poll"
    /\ EventLoopRuns(r)
    /\ Step(r, "L148")
    /\ UNCHANGED <<command_queue, player_data, player_data_lock, op, req, log, budget, queue0>>

get_next_command_untested(r) ==
    /\ pc[r] = "L148"
    /\ EventLoopRuns(r)
    /\ Step(r, "L149")
    /\ UNCHANGED <<command_queue, player_data, player_data_lock, op, req, log, budget, queue0>>

\* line 148: if command_queue:   line 150: return {"command": None}
get_next_command_test(r) ==
    /\ pc[r] = "L148"
    /\ EventLoopRuns(r)
    /\ IF command_queue # << >>
       THEN /\ Step(r, "L149")
            /\ UNCHANGED <<req, log>>
       ELSE Complete(r, [op |-> "poll", resp |-> [command |-> None]])
    /\ UNCHANGED <<command_queue, player_data, player_data_lock, op, budget, queue0>>

get_next_command_pop_falsy(r) ==
    /\ pc[r] = "L149"
    /\ EventLoopRuns(r)
    /\ command_queue # << >>
    /\ command_queue' = QueuePop0(command_queue)[2]
    /\ Complete(r, [op |-> "poll",
                    resp |-> [command |-> IF QueuePop0(command_queue)[1].args = << >>
                                          THEN None
                                          ELSE Some(QueuePop0(command_queue)[1])]])
    /\ UNCHANGED <<player_data, player_data_lock, op, budget, queue0>>

\* line 149: return {"command": command_queue.pop(0)}
\* (pop(0) of an empty list raises IndexError: a 500 response)
get_next_command_pop(r) ==
    /\ pc[r] = "L149"
    /\ EventLoopRuns(r)
    /\ IF command_queue = << >>
       THEN /\ Complete(r, [op |-> "poll", resp |-> [status_code |-> 500]])
            /\ UNCHANGED command_queue
       ELSE /\ command_queue' = QueuePop0(command_queue)[2]
            /\ Complete(r, [op |-> "poll",
                            resp |-> [command |-> Some(QueuePop0(command_queue)[1])]])
    /\ UNCHANGED <<player_data, player_data_lock, op, budget, queue0>>

\* -------------------------------------------- POST /api/coords (159-164)
\* the body is validated against PlayerInfo before the handler is entered
update_player_info_enter(r) ==
    /\ pc[r] = "pending" /\ op[r] = "publish"
    /\ EventLoopRuns(r)
    /\ \E b \in PlayerBodies :
          IF PlayerInfo(b) = None
          THEN /\ Complete(r, [op |-> "publish", body |-> b, resp |-> ValidationError])
               /\ UNCHANGED <<command_queue, player_data, player_data_lock, op, budget, queue0>>
          ELSE /\ Step(r, "L161")
               /\ req' = [req EXCEPT ![r] = Some([body |-> b, info |-> PlayerInfo(b)[1]])]
               /\ UNCHANGED <<command_queue, player_data, player_data_lock, op, log, budget, queue0>>

\* line 161: with player_data_lock:  (acquire; waits while the lock is held)
update_player_info_acquire(r) ==
    /\ pc[r] = "L161"
    /\ EventLoopRuns(r)
    /\ player_data_lock = FALSE
    /\ player_data_lock' = TRUE
    /\ Step(r, "L163")
    /\ UNCHANGED <<command_queue, player_data, op, req, log, budget, queue0>>

\* line 163: player_data[info.name] = info.dict()
update_player_info_store(r) ==
    /\ pc[r] = "L163"
    /\ EventLoopRuns(r)
    /\ player_data' = Replace(player_data, req[r][1].info)
    /\ Step(r, "L164")
    /\ UNCHANGED <<command_queue, player_data_lock, op, req, log, budget, queue0>>

update_player_info_return_holding(r) ==
    /\ pc[r] = "L164"
    /\ EventLoopRuns(r)
    /\ player_data_lock' = TRUE
    /\ Complete(r, [op |-> "publish", body |-> req[r][1].body,
                    resp |-> [status |-> "updated"]])
    /\ UNCHANGED <<command_queue, player_data, op, budget, queue0>>

\* end of the with block (release), line 164: return {"status": "updated"}
update_player_info_return(r) ==
    /\ pc[r] = "L164"
    /\ EventLoopRuns(r)
    /\ player_data_lock' = FALSE
    /\ Complete(r, [op |-> "publish", body |-> req[r][1].body,
                    resp |-> [status |-> "updated"]])
    /\ UNCHANGED <<command_queue, player_data, op, budget, queue0>>

\* --------------------------------------------- GET /api/coords (167-170)
get_all_player_info_enter(r) ==
    /\ pc[r] = "pending" /\ op[r] = "read"
    /\ EventLoopRuns(r)
    /\ Step(r, "L169")
    /\ UNCHANGED <<command_queue, player_data, player_data_lock, op, req, log, budget, queue0>>

\* line 169: with player_data_lock:  (acquire)
get_all_player_info_acquire(r) ==
    /\ pc[r] = "L169"
    /\ EventLoopRuns(r)
    /\ player_data_lock = FALSE
    /\ player_data_lock' = TRUE
    /\ Step(r, "L170")
    /\ UNCHANGED <<command_queue, player_data, op, req, log, budget, queue0>>

\* line 170: return {"players": player_data}, releasing the lock on the way
\* out of the with block.  `seen` records what the mapping held at that moment.
get_all_player_info_return(r) ==
    /\ pc[r] = "L170"
    /\ EventLoopRuns(r)
    /\ player_data_lock' = FALSE
    /\ Complete(r, [op |-> "read", resp |-> PlayersResponse,
                    seen |-> Deref(PlayersResponse.players)])
    /\ UNCHANGED <<command_queue, player_data, op, budget, queue0>>

\* ------------------------------------------------ convenience endpoints
\* the player names, flame types, item types and numbers the path parameters
\* of the convenience endpoints take in this model
PathPlayers == {"Alice", "Bob"}

FlameTypes == {"blue"}

ItemTypes == {"Sword"}

Amounts == {5}

\* str.upper(), str.lower() and str() on those values
Upper(t) == CASE t = "blue" -> "BLUE" [] t = "Sword" -> "SWORD" [] OTHER -> t

Lower(t) == CASE t = "blue" -> "blue" [] t = "Sword" -> "sword" [] OTHER -> t

Str(n) == CASE n = 5 -> "5" [] n = 0 -> "0" [] OTHER -> "n"

\* class InventoryChange: player, action and item are all required
InventoryChange(b) ==
    IF b.player = None \/ b.action = None \/ b.item = None
    THEN None
    ELSE Some([player |-> b.player[1], action |-> b.action[1], item |-> b.item[1]])

\* request bodies of POST /api/coords/inventory the model sends
InventoryBodies ==
    { [player |-> Some("Alice"), action |-> Some("add"),    item |-> Some("stone")],
      [player |-> Some("Bob"),   action |-> Some("remove"), item |-> Some("stone")],
      [player |-> Some("Alice"), action |-> Some("drop"),   item |-> Some("stone")],
      [player |-> Some("Alice"), action |-> Some("add"),    item |-> None] }

\* lines 178-182: the command dict of an inventory change.  Its player key
\* holds a string, written << s >> like every string in a place that can
\* also hold None.
InventoryCommand(change) ==
    [player  |-> Some(change.player),
     command |-> "inventory_edit",
     args    |-> <<change.action, change.item>>]

\* line 176: JSONResponse(status_code=400, content={"error": "Invalid action"})
InvalidAction == [status_code |-> 400, content |-> [error |-> "Invalid action"]]

\* one entry of armor_commands: a dict without a player key
Give(player_name, item, count) ==
    [command |-> "give", args |-> <<player_name, item, count>>]

\* lines 210-285: armor_commands
armor_commands(player_name) ==
    << Give(player_name, "diamond_helmet{Enchantments:[{id:\"minecraft:protection\",lvl:3},{id:\"minecraft:unbreaking\",lvl:3},{id:\"minecraft:respiration\",lvl:3},{id:\"minecraft:aqua_affinity\",lvl:1}]}", "1"),
       Give(player_name, "diamond_chestplate{Enchantments:[{id:\"minecraft:protection\",lvl:3},{id:\"minecraft:unbreaking\",lvl:3}]}", "1"),
       Give(player_name, "diamond_leggings{Enchantments:[{id:\"minecraft:protection\",lvl:3},{id:\"minecraft:unbreaking\",lvl:3}]}", "1"),
       Give(player_name, "diamond_boots{Enchantments:[{id:\"minecraft:protection\",lvl:3},{id:\"minecraft:unbreaking\",lvl:3},{id:\"minecraft:feather_falling\",lvl:4},{id:\"minecraft:depth_strider\",lvl:3}]}", "1"),
       Give(player_name, "bow{Enchantments:[{id:\"minecraft:power\",lvl:5},{id:\"minecraft:punch\",lvl:2},{id:\"minecraft:flame\",lvl:1},{id:\"minecraft:infinity\",lvl:1},{id:\"minecraft:unbreaking\",lvl:3}]}", "1"),
       Give(player_name, "crossbow{Enchantments:[{id:\"minecraft:quick_charge\",lvl:3},{id:\"minecraft:multishot\",lvl:1},{id:\"minecraft:piercing\",lvl:4},{id:\"minecraft:unbreaking\",lvl:3}]}", "1"),
       Give(player_name, "diamond_pickaxe{Enchantments:[{id:\"minecraft:efficiency\",lvl:5},{id:\"minecraft:unbreaking\",lvl:3},{id:\"minecraft:fortune\",lvl:3}]}", "1"),
       Give(player_name, "diamond_axe{Enchantments:[{id:\"minecraft:efficiency\",lvl:5},{id:\"minecraft:unbreaking\",lvl:3},{id:\"minecraft:fortune\",lvl:3}]}", "1"),
       Give(player_name, "diamond_shovel{Enchantments:[{id:\"minecraft:efficiency\",lvl:5},{id:\"minecraft:unbreaking\",lvl:3},{id:\"minecraft:fortune\",lvl:3}]}", "1"),
       Give(player_name, "diamond_hoe{Enchantments:[{id:\"minecraft:efficiency\",lvl:5},{id:\"minecraft:unbreaking\",lvl:3},{id:\"minecraft:fortune\",lvl:3}]}", "1"),
       Give(player_name, "trident{Enchantments:[{id:\"minecraft:riptide\",lvl:3},{id:\"minecraft:mending\",lvl:1},{id:\"minecraft:unbreaking\",lvl:3}]}", "1"),
       Give(player_name, "enchanted_golden_apple", "4"),
       Give(player_name, "wind_charge", "64"),
       Give(player_name, "wind_charge", "64"),
       Give(player_name, "arrow", "64") >>

\* a handler that builds one command, appends it and returns (lines 187-204
\* and 296-350): it has no await, the loop runs it in one go
Enqueue(r, o, input, cmd, resp) ==
    /\ pc[r] = "pending" /\ op[r] = o
    /\ EventLoopRuns(r)
    /\ command_queue' = QueueAppend(command_queue, cmd)
    /\ Complete(r, [op |-> o, input |-> input, resp |-> resp])
    /\ UNCHANGED <<player_data, player_data_lock, op, budget, queue0>>

\* POST /api/sabotage/{player_name} (187-194)
sabotage_player(r) ==
    \E player_name \in PathPlayers :
        Enqueue(r, "sabotage", <<player_name>>,
                [command |-> "attribute",
                 args |-> <<player_name, "minecraft:generic.attack_damage", "base", "set", "0.5">>],
                [status |-> "sabotaged", player |-> player_name])

\* POST /api/unsabotage/{player_name} (197-204)
unsabotage_player(r) ==
    \E player_name \in PathPlayers :
        Enqueue(r, "unsabotage", <<player_name>>,
                [command |-> "attribute",
                 args |-> <<player_name, "minecraft:generic.attack_damage", "base", "set", "1.0">>],
                [status |-> "unsabotaged", player |-> player_name])

\* POST /api/flame/setabilitydamage/{player_name}/{flame_type}/{damage} (296-303)
set_player_ability_damage(r) ==
    \E player_name \in PathPlayers, flame_type \in FlameTypes, damage \in Amounts :
        Enqueue(r, "setabilitydamage", <<player_name, flame_type, damage>>,
                [command |-> "setabilitydamage",
                 args |-> <<player_name, Upper(flame_type), Str(damage)>>],
                [status |-> "ability_damage_set", player |-> player_name,
                 flame |-> flame_type, damage |-> damage])

\* POST /api/flame/setabilityduration/{player_name}/{flame_type}/{duration} (306-313)
set_player_ability_duration(r) ==
    \E player_name \in PathPlayers, flame_type \in FlameTypes, duration \in Amounts :
        Enqueue(r, "setabilityduration", <<player_name, flame_type, duration>>,
                [command |-> "setabilityduration",
                 args |-> <<player_name, Upper(flame_type), Str(duration)>>],
                [status |-> "ability_duration_set", player |-> player_name,
                 flame |-> flame_type, duration |-> duration])

\* POST /api/flame/set/{player_name}/{flame_type} (315-322)
set_player_flame(r) ==
    \E player_name \in PathPlayers, flame_type \in FlameTypes :
        Enqueue(r, "flame_set", <<player_name, flame_type>>,
                [command |-> "flame", args |-> <<"set", player_name, Upper(flame_type)>>],
                [status |-> "flame_set", player |-> player_name, flame |-> flame_type])

\* POST /api/flame/upgrade/{player_name} (324-331)
upgrade_player_flame(r) ==
    \E player_name \in PathPlayers :
        Enqueue(r, "flame_upgrade", <<player_name>>,
                [command |-> "flame", args |-> <<"upgrade", player_name>>],
                [status |-> "flame_upgraded", player |-> player_name])

\* POST /api/flame/downgrade/{player_name} (333-340)
downgrade_player_flame(r) ==
    \E player_name \in PathPlayers :
        Enqueue(r, "flame_downgrade", <<player_name>>,
                [command |-> "flame", args |-> <<"unupgrade", player_name>>],
                [status |-> "flame_downgraded", player |-> player_name])

\* POST /api/flame/give/{player_name}/{item_type} (343-350)
give_flame_item(r) ==
    \E player_name \in PathPlayers, item_type \in ItemTypes :
        Enqueue(r, "flame_give", <<player_name, item_type>>,
                [command |-> "flame", args |-> <<"give", player_name, Lower(item_type)>>],
                [status |-> "item_given", player |-> player_name, item |-> item_type])

\* -------------------------------- POST /api/coords/inventory (173-184)
\* the body is validated against InventoryChange before the handler is entered
change_inventory_enter(r) ==
    /\ pc[r] = "pending" /\ op[r] = "inventory"
    /\ EventLoopRuns(r)
    /\ \E b \in InventoryBodies :
          IF InventoryChange(b) = None
          THEN /\ Complete(r, [op |-> "inventory", body |-> b, resp |-> ValidationError])
               /\ UNCHANGED <<command_queue, player_data, player_data_lock, op, budget, queue0>>
          ELSE /\ Step(r, "L175")
               /\ req' = [req EXCEPT ![r] = Some([body |-> b, change |-> InventoryChange(b)[1]])]
               /\ UNCHANGED <<command_queue, player_data, player_data_lock, op, log, budget, queue0>>

change_inventory_any_action(r) ==
    /\ pc[r] = "L175"
    /\ EventLoopRuns(r)
    /\ Step(r, "L183")
    /\ UNCHANGED <<command_queue, player_data, player_data_lock, op, req, log, budget, queue0>>

\* line 175: if change.action not in ["add", "remove"]: return the 400 response
change_inventory_test(r) ==
    /\ pc[r] = "L175"
    /\ EventLoopRuns(r)
    /\ IF req[r][1].change.action \notin {"add", "remove"}
       THEN Complete(r, [op |-> "inventory", body |-> req[r][1].body, resp |-> InvalidAction])
       ELSE /\ Step(r, "L183")
            /\ UNCHANGED <<req, log>>
    /\ UNCHANGED <<command_queue, player_data, player_data_lock, op, budget, queue0>>

\* lines 178-183: cmd = {...}; command_queue.append(cmd)
change_inventory_append(r) ==
    /\ pc[r] = "L183"
    /\ EventLoopRuns(r)
    /\ command_queue' = QueueAppend(command_queue, InventoryCommand(req[r][1].change))
    /\ Step(r, "L184")
    /\ UNCHANGED <<player_data, player_data_lock, op, req, log, budget, queue0>>

\* line 184: return {"status": "queued", "command": cmd}
change_inventory_return(r) ==
    /\ pc[r] = "L184"
    /\ EventLoopRuns(r)
    /\ Complete(r, [op |-> "inventory", body |-> req[r][1].body,
                    resp |-> [status |-> "queued",
                              command |-> InventoryCommand(req[r][1].change)]])
    /\ UNCHANGED <<command_queue, player_data, player_data_lock, op, budget, queue0>>

\* ------------------------------ POST /api/regear/{player_name} (207-291)
\* lines 210-285: armor_commands is built; i is the index the loop is at
regear_player_enter(r) ==
    /\ pc[r] = "pending" /\ op[r] = "regear"
    /\ EventLoopRuns(r)
    /\ \E player_name \in PathPlayers :
          req' = [req EXCEPT ![r] = Some([player_name |-> player_name, i |-> 1])]
    /\ Step(r, "L288")
    /\ UNCHANGED <<command_queue, player_data, player_data_lock, op, log, budget, queue0>>

\* lines 288-289: for cmd in armor_commands: command_queue.append(cmd)
regear_player_append(r) ==
    /\ pc[r] = "L288"
    /\ EventLoopRuns(r)
    /\ LET cmds == armor_commands(req[r][1].player_name)
           i == req[r][1].i
       IN  IF i <= Len(cmds)
           THEN /\ command_queue' = QueueAppend(command_queue, cmds[i])
                /\ req' = [req EXCEPT ![r] = Some([req[r][1] EXCEPT !.i = i + 1])]
                /\ Step(r, "L288")
           ELSE /\ Step(r, "L291")
                /\ UNCHANGED <<command_queue, req>>
    /\ UNCHANGED <<player_data, player_data_lock, op, log, budget, queue0>>

\* line 291: return {"status": "regeared", ..., "items_given": len(armor_commands)}
regear_player_return(r) ==
    /\ pc[r] = "L291"
    /\ EventLoopRuns(r)
    /\ Complete(r, [op |-> "regear", input |-> <<req[r][1].player_name>>,
                    resp |-> [status |-> "regeared", player |-> req[r][1].player_name,
                              items_given |-> Len(armor_commands(req[r][1].player_name))]])
    /\ UNCHANGED <<command_queue, player_data, player_data_lock, op, budget, queue0>>

\* the handlers that enqueue one command built from path parameters
EnqueueOps ==
    {"sabotage", "unsabotage", "setabilitydamage", "setabilityduration",
     "flame_set", "flame_upgrade", "flame_downgrade", "flame_give"}

ArriveEnqueue(r) == \E o \in EnqueueOps : Arrive(r, o)

ArriveInventory(r) == Arrive(r, "inventory")

ArriveRegear(r) == Arrive(r, "regear")

\* --------------------------------------------------------- specifications
NextQueue ==
    \E r \in Reqs :
        \/ ArriveSubmit(r)
        \/ ArrivePoll(r)
        \/ receive_command_enter(r)
        \/ receive_command_append(r)
        \/ receive_command_return(r)
        \/ get_next_command_enter(r)
        \/ get_next_command_test(r)
        \/ get_next_command_pop(r)

NextStore ==
    \E r \in Reqs :
        \/ ArrivePublish(r)
        \/ ArriveRead(r)
        \/ update_player_info_enter(r)
        \/ update_player_info_acquire(r)
        \/ update_player_info_store(r)
        \/ update_player_info_return(r)
        \/ get_all_player_info_enter(r)
        \/ get_all_player_info_acquire(r)
        \/ get_all_player_info_return(r)

NextPoll ==
    \E r \in Reqs :
        \/ get_next_command_enter(r)
        \/ get_next_command_test(r)
        \/ get_next_command_pop(r)

Next == NextQueue \/ NextStore

\* every endpoint, MaxOps requests
Spec == Init /\ [][Next]_vars

\* the queue endpoints only, MaxQueueOps requests
SpecQueue == InitQueue /\ [][NextQueue]_vars

\* the store endpoints only, MaxStoreOps requests
SpecStore == InitStore /\ [][NextStore]_vars

\* the event loop runs every handler that is ready to run
StoreStep(r) ==
    \/ update_player_info_enter(r)
    \/ update_player_info_acquire(r)
    \/ update_player_info_store(r)
    \/ update_player_info_return(r)
    \/ get_all_player_info_enter(r)
    \/ get_all_player_info_acquire(r)
    \/ get_all_player_info_return(r)

InitLive == InitWith(MaxLiveOps)

\* the store endpoints only, MaxLiveOps requests, fair scheduling of handlers
SpecStoreLive ==
    InitLive /\ [][NextStore]_vars /\ \A r \in Reqs : WF_vars(StoreStep(r))

NextInventory ==
    \E r \in Reqs :
        \/ ArriveInventory(r)
        \/ change_inventory_enter(r)
        \/ change_inventory_test(r)
        \/ change_inventory_append(r)
        \/ change_inventory_return(r)

NextRegear ==
    \E r \in Reqs :
        \/ ArriveRegear(r)
        \/ regear_player_enter(r)
        \/ regear_player_append(r)
        \/ regear_player_return(r)

NextEnqueue ==
    \E r \in Reqs :
        \/ ArriveEnqueue(r)
        \/ sabotage_player(r)
        \/ unsabotage_player(r)
        \/ set_player_ability_damage(r)
        \/ set_player_ability_duration(r)
        \/ set_player_flame(r)
        \/ upgrade_player_flame(r)
        \/ downgrade_player_flame(r)
        \/ give_flame_item(r)

NextAll == NextQueue \/ NextStore \/ NextInventory \/ NextRegear \/ NextEnqueue

InitInventory == InitWith(MaxInventoryOps)

InitRegear == InitWith(MaxRegearOps)

InitAll == InitWith(MaxAllOps)

\* inventory changes next to the generic producer and the poll
SpecInventory == InitInventory /\ [][NextQueue \/ NextInventory]_vars

\* regears next to the generic producer and the poll
SpecRegear == InitRegear /\ [][NextQueue \/ NextRegear]_vars

\* every endpoint of the application, MaxAllOps requests
SpecAll == InitAll /\ [][NextAll]_vars

\* MaxReqs polls racing at a queue of up to MaxQueue commands, no enqueue
SpecPoll == InitPoll /\ [][NextPoll]_vars

TypeOK ==
    /\ player_data_lock \in BOOLEAN
    /\ loop \in Reqs \cup {NoTask}
    /\ budget \in 0..(MaxOps + MaxQueueOps + MaxStoreOps)

\* ------------------------------------------------- reading the call log
Min(a, b) == IF a < b THEN a ELSE b

Count(c, q) == Cardinality({i \in 1..Len(q) : q[i] = c})

Range(q) == {q[i] : i \in 1..Len(q)}

IsPrefix(p, q) == Len(p) <= Len(q) /\ \A i \in 1..Len(p) : p[i] = q[i]

\* a poll that handed a command to its caller
IsDelivery(e) ==
    e.op = "poll" /\ "command" \in DOMAIN e.resp /\ e.resp.command # None

\* a submit-command that was acknowledged
IsEnqueue(e) == e.op = "submit" /\ "queued" \in DOMAIN e.resp

\* a publish-state that was acknowledged
IsPublish(e) == e.op = "publish" /\ "status" \in DOMAIN e.resp

\* the commands the first n calls handed to pollers, in order of completion
DeliveredIn(n) ==
    LET d == SelectSeq(SubSeq(log, 1, n), IsDelivery)
    IN  [i \in 1..Len(d) |-> d[i].resp.command[1]]

Delivered == DeliveredIn(Len(log))

\* the commands the first n calls were acknowledged for, in order of completion
EnqueuedIn(n) ==
    LET d == SelectSeq(SubSeq(log, 1, n), IsEnqueue)
    IN  [i \in 1..Len(d) |-> d[i].resp.queued]

Enqueued == EnqueuedIn(Len(log))

\* the command a submit-command body denotes: the target as given (left out
\* stays None), the name and the args as given
Want(b) == [player |-> b.player, command |-> b.command[1], args |-> b.args[1]]

\* the snapshot dict a valid publish-state body denotes
Snapshot(b) == PlayerInfoDict(PlayerInfo(b)[1])

\* the index of the last acknowledged publish for key k among the first n
\* calls, 0 when there is none
LastPublish(k, n) ==
    LET S == {i \in 1..n : IsPublish(log[i]) /\ log[i].body.name = Some(k)}
    IN  IF S = {} THEN 0 ELSE CHOOSE i \in S : \A j \in S : j <= i

PublishedKeys(n) ==
    {log[i].body.name[1] : i \in {j \in 1..n : IsPublish(log[j])}}

\* ------------------------------------------------------------------- C1
\* C1: N polls racing at a queue of K commands with no enqueue: what the
\* polls returned plus what is still queued is, command for command, the
\* original queue (nothing returned twice, nothing dropped), no poll fails,
\* and once all N have returned they delivered min(N,K) commands.
C1_ExactlyOnce ==
    /\ \A c \in Range(queue0) \cup Range(Delivered) \cup Range(command_queue) :
          Count(c, Delivered) + Count(c, command_queue) = Count(c, queue0)
    /\ \A i \in 1..Len(log) : "status_code" \notin DOMAIN log[i].resp
    /\ Len(log) = MaxReqs => Len(Delivered) = Min(MaxReqs, Len(queue0))

\* all polls returned, some with a command and some with none
C1_Witness ==
    /\ Len(log) = MaxReqs
    /\ Len(queue0) >= 1
    /\ Len(queue0) < MaxReqs
    /\ Len(Delivered) = Len(queue0)
    /\ \E i \in 1..Len(log) : log[i].resp = [command |-> None]

\* ------------------------------------------------------------------- C2
\* C2: commands come out in the order their enqueues completed, whatever
\* their target: the sequence of delivered commands is a prefix of the
\* sequence of acknowledged commands.
C2_Fifo == IsPrefix(Delivered, Enqueued)

\* A and B with different targets were enqueued, a third was enqueued after
\* A was delivered, then B was delivered
C2_Witness ==
    /\ Len(log) >= 5
    /\ IsEnqueue(log[1]) /\ IsEnqueue(log[2])
    /\ log[1].resp.queued.player # log[2].resp.queued.player
    /\ IsDelivery(log[3]) /\ IsEnqueue(log[4]) /\ IsDelivery(log[5])
    /\ log[3].resp.command[1] = log[1].resp.queued
    /\ log[5].resp.command[1] = log[2].resp.queued
    /\ log[4].resp.queued # log[2].resp.queued

\* ------------------------------------------------------------------- C3
\* C3: what read-states returns is, key by key, the whole snapshot of the
\* last publish-state that completed for that key before the read, for
\* exactly the keys published so far.
C3_LastWriteWins ==
    \A i \in 1..Len(log) :
        log[i].op = "read" =>
            /\ DOMAIN log[i].seen = PublishedKeys(i - 1)
            /\ \A k \in DOMAIN log[i].seen :
                  log[i].seen[k] = Snapshot(log[LastPublish(k, i - 1)].body)

\* S1 with armor, then S2 for the same key without armor, then a read
C3_Witness ==
    /\ Len(log) >= 3
    /\ IsPublish(log[1]) /\ IsPublish(log[2]) /\ log[3].op = "read"
    /\ log[1].body.name = log[2].body.name
    /\ log[1].body.armor # None /\ log[2].body.armor = None
    /\ log[3].seen[log[2].body.name[1]].armor = None

\* ------------------------------------------------------------------- C4
\* the snapshots published for key k: by the completed publishes and by the
\* publishes that are inside their handler
PublishedFor(k) ==
    {Snapshot(log[i].body) :
        i \in {j \in 1..Len(log) : IsPublish(log[j]) /\ log[j].body.name = Some(k)}}
    \cup
    {PlayerInfoDict(req[r][1].info) :
        r \in {x \in Reqs : /\ op[x] = "publish"
                            /\ pc[x] \in {"L161", "L163", "L164"}
                            /\ req[x][1].info.name = k}}

\* C4: every value in the mapping of a read is one whole published snapshot
\* of its key, when the read returns it and whenever the reader looks at it.
C4_WholeSnapshots ==
    \A i \in 1..Len(log) :
        log[i].op = "read" =>
            /\ \A k \in DOMAIN log[i].seen : log[i].seen[k] \in PublishedFor(k)
            /\ \A k \in DOMAIN Deref(log[i].resp.players) :
                  Deref(log[i].resp.players)[k] \in PublishedFor(k)

\* a read returned a snapshot of a key that was published twice, with a
\* further publish in flight
C4_Witness ==
    /\ Len(log) >= 3
    /\ log[Len(log)].op = "read"
    /\ \E k \in DOMAIN log[Len(log)].seen : Cardinality(PublishedFor(k)) >= 2
    /\ \E r \in Reqs : op[r] = "publish" /\ pc[r] = "pending"

\* ------------------------------------------------------------------- C5
\* C5: the mapping a read returned keeps the content it had when the read
\* returned it.
C5_ReturnedMappingIsStable ==
    \A i \in 1..Len(log) :
        log[i].op = "read" => Deref(log[i].resp.players) = log[i].seen

\* ------------------------------------------------------------------- C6
InQueueOp(r) == pc[r] \in {"L143", "L144", "L148", "L149"}

InStoreSection(r) == pc[r] \in {"L163", "L164", "L170"}

\* C6: no two requests are inside queue handlers at once, no two are inside
\* the store's critical section at once, and the lock is held exactly while
\* one is.
C6_MutualExclusion ==
    /\ \A r1, r2 \in Reqs :
          r1 # r2 => /\ ~(InQueueOp(r1) /\ InQueueOp(r2))
                     /\ ~(InStoreSection(r1) /\ InStoreSection(r2))
    /\ player_data_lock <=> \E r \in Reqs : InStoreSection(r)

\* one request is inside a handler while another one of the same component
\* is waiting for the loop
C6_Witness ==
    \E r1, r2 \in Reqs :
        /\ r1 # r2
        /\ \/ InQueueOp(r1) /\ pc[r2] = "pending" /\ op[r2] \in {"submit", "poll"}
           \/ InStoreSection(r1) /\ pc[r2] = "pending" /\ op[r2] \in {"publish", "read"}

\* ------------------------------------------------------------------- C7
\* nothing is queued after the first n calls
EmptyAfter(n) == Len(EnqueuedIn(n)) = Len(DeliveredIn(n))

\* C7: a poll that finds the queue empty returns {"command": None} in that
\* very step (it does not wait and does not fail) and leaves the queue
\* empty, however often it is repeated.
C7_EmptyPoll ==
    /\ [](\A i \in 1..Len(log) :
             (log[i].op = "poll" /\ EmptyAfter(i - 1))
                 => log[i].resp = [command |-> None])
    /\ [](\A r \in Reqs :
             (pc[r] = "L148" /\ loop = r) => ENABLED get_next_command_test(r))
    /\ [][\A r \in Reqs :
             (pc[r] = "L148" /\ command_queue = << >> /\ pc'[r] # "L148")
                 => /\ pc'[r] = "idle"
                    /\ log' = Append(log, [op |-> "poll", resp |-> [command |-> None]])
                    /\ command_queue' = << >>]_vars

\* two polls in a row on the queue that was never filled
C7_Witness ==
    /\ Len(log) >= 2
    /\ log[1].op = "poll" /\ log[1].resp = [command |-> None]
    /\ log[2].op = "poll" /\ log[2].resp = [command |-> None]
    /\ command_queue = << >>

\* ------------------------------------------------------------------- C8
\* a snapshot body without its required coordinates
LacksCoords(b) ==
    \/ b.coords = None
    \/ \E f \in {"x", "y", "z", "world"} : b.coords[1][f] = None

\* a command body without its required name or args
LacksCommandField(b) == b.command = None \/ b.args = None

Rejected(e) == "status_code" \in DOMAIN e.resp /\ e.resp.status_code = 422

\* the commands the submits that are inside their handler have appended
AppendedInFlight == {CommandDict(req[r][1].cmd) : r \in {x \in Reqs : pc[x] = "L144"}}

\* C8: a body that fails validation is rejected and the step that rejects it
\* changes neither the store nor the queue; the store only ever holds whole
\* snapshots of valid publishes and the queue only commands of valid submits.
C8_RejectionStoresNothing ==
    /\ [](\A i \in 1..Len(log) :
             /\ (log[i].op = "publish" /\ LacksCoords(log[i].body)) => Rejected(log[i])
             /\ (log[i].op = "submit" /\ LacksCommandField(log[i].body)) => Rejected(log[i]))
    /\ [](/\ \A k \in DOMAIN player_data : player_data[k] \in PublishedFor(k)
          /\ Range(command_queue) \subseteq Range(Enqueued) \cup AppendedInFlight)
    /\ [][(Len(log') = Len(log) + 1 /\ Rejected(log'[Len(log')]))
             => (player_data' = player_data /\ command_queue' = command_queue)]_vars

\* a publish without coordinates was rejected after a publish for the same
\* key was stored, and the stored one is still the value; a submit was
\* rejected too
C8_Witness ==
    /\ \E i, j \in 1..Len(log) :
          /\ i < j
          /\ IsPublish(log[i])
          /\ log[j].op = "publish" /\ Rejected(log[j]) /\ LacksCoords(log[j].body)
          /\ log[j].body.name = log[i].body.name
          /\ log[j].body.armor # log[i].body.armor
          /\ player_data[log[i].body.name[1]] = Snapshot(log[i].body)
    /\ \E n \in 1..Len(log) : log[n].op = "submit" /\ Rejected(log[n])
    /\ command_queue = << >>

\* ------------------------------------------------------------------- C9
\* C9: a submit on the empty queue is acknowledged with the command its body
\* denotes (a target left out stays None), that command is what the queue
\* then holds, the next poll returns it and the poll after that returns none.
C9_RoundTrip ==
    \A i \in 1..Len(log) :
        (/\ log[i].op = "submit"
         /\ ~LacksCommandField(log[i].body)
         /\ EmptyAfter(i - 1))
        => /\ log[i].resp = [status |-> "ok", queued |-> Want(log[i].body)]
           /\ i = Len(log) =>
                 command_queue # << >> /\ Head(command_queue) = Want(log[i].body)
           /\ (i + 1 <= Len(log) /\ log[i + 1].op = "poll") =>
                 log[i + 1].resp = [command |-> Some(Want(log[i].body))]
           /\ (i + 2 <= Len(log) /\ log[i + 1].op = "poll" /\ log[i + 2].op = "poll") =>
                 log[i + 2].resp = [command |-> None]

\* a command without target and with two args went in, came out and the
\* queue was empty again
C9_Witness ==
    \E i \in 1..Len(log) :
        /\ i + 2 <= Len(log)
        /\ log[i].op = "submit" /\ EmptyAfter(i - 1)
        /\ log[i].body.player = None
        /\ log[i].body.args = Some(<<"sword", "1">>)
        /\ log[i].resp.queued.player = None
        /\ log[i + 1].op = "poll"
        /\ log[i + 1].resp.command[1].args = <<"sword", "1">>
        /\ log[i + 2] = [op |-> "poll", resp |-> [command |-> None]]

\* ------------------------------------------------------------------ C10
FourEmptySlots ==
    [helmet |-> None, chestplate |-> None, leggings |-> None, boots |-> None]

\* C10: a key whose last snapshot left armor out reads back with armor None,
\* a key whose last snapshot carried an armor record of four empty slots
\* reads back with that record.
C10_ArmorAbsentOrEmpty ==
    \A i \in 1..Len(log) :
        log[i].op = "read" =>
            \A k \in DOMAIN log[i].seen :
                LET j == LastPublish(k, i - 1) IN
                /\ j > 0
                /\ log[j].body.armor = None => log[i].seen[k].armor = None
                /\ log[j].body.armor = Some(FourEmptySlots) =>
                      /\ log[i].seen[k].armor = Some(FourEmptySlots)
                      /\ log[i].seen[k].armor # None

\* the same key was read once after a publish without armor and once after a
\* publish with four empty slots
C10_Witness ==
    \E i, j \in 1..Len(log) :
        /\ log[i].op = "read" /\ log[j].op = "read"
        /\ \E k \in DOMAIN log[i].seen \cap DOMAIN log[j].seen :
              /\ log[i].seen[k].armor = None
              /\ log[j].seen[k].armor = Some(FourEmptySlots)

\* ------------------------------------------------------------------ C11
\* C11: whatever optional scalar or record field the last snapshot of a key
\* left out reads back as None: currentAction, armor, offhand, status,
\* world, heldItem, and displayName, damage, maxDurability and
\* durabilityPercentage of an item that was given without them.
C11_OmittedStaysAbsent ==
    \A i \in 1..Len(log) :
        log[i].op = "read" =>
            \A k \in DOMAIN log[i].seen :
                LET j == LastPublish(k, i - 1)
                    s == log[i].seen[k]
                IN  j > 0 =>
                    /\ log[j].body.currentAction = None => s.currentAction = None
                    /\ log[j].body.armor = None => s.armor = None
                    /\ s.offhand = None /\ s.status = None
                    /\ s.world = None /\ s.heldItem = None
                    /\ (/\ log[j].body.armor # None
                        /\ log[j].body.armor[1].helmet # None
                        /\ log[j].body.armor[1].helmet[1].displayName = None)
                       => /\ s.armor[1].helmet[1].displayName = None
                          /\ s.armor[1].helmet[1].damage = None
                          /\ s.armor[1].helmet[1].maxDurability = None
                          /\ s.armor[1].helmet[1].durabilityPercentage = None

\* ------------------------------------------------------------------ C12
\* C12: every command in the queue has a non-empty name.
C12_NamesNonEmpty ==
    \A i \in 1..Len(command_queue) : command_queue[i].command # ""

\* ------------------------------------------------------------------ C13
\* the keys the publishes inside their handler have already stored
StoredInFlight ==
    {req[r][1].info.name : r \in {x \in Reqs : op[x] = "publish" /\ pc[x] = "L164"}}

\* C13: no step removes a key from the store; the store holds exactly the
\* keys published so far; a read returns a mapping (never an error) with
\* exactly the keys published before it, so a key never published is absent
\* and a key once returned is in every later result.
C13_KeysOnlyGrow ==
    /\ [][DOMAIN player_data \subseteq DOMAIN player_data']_vars
    /\ [](DOMAIN player_data = PublishedKeys(Len(log)) \cup StoredInFlight)
    /\ [](\A i \in 1..Len(log) :
             log[i].op = "read" =>
                 /\ "players" \in DOMAIN log[i].resp
                 /\ DOMAIN log[i].seen = PublishedKeys(i - 1)
                 /\ \A j \in i..Len(log) :
                       log[j].op = "read" => DOMAIN log[i].seen \subseteq DOMAIN log[j].seen)

\* a read that had one key but not yet Bob, a later read that has both
C13_Witness ==
    \E i, j \in 1..Len(log) :
        /\ i < j
        /\ log[i].op = "read" /\ log[j].op = "read"
        /\ log[i].seen # << >>
        /\ "Bob" \notin DOMAIN log[i].seen
        /\ "Bob" \in DOMAIN log[j].seen
        /\ DOMAIN log[i].seen \subseteq DOMAIN log[j].seen

\* ------------------------------------------------------------------ C16
\* C16: each snapshot in the store, and in every mapping a read returned,
\* carries the name it is filed under.
C16_FiledUnderOwnName ==
    /\ \A k \in DOMAIN player_data : player_data[k].name = k
    /\ \A i \in 1..Len(log) :
          log[i].op = "read" =>
              \A k \in DOMAIN log[i].seen : log[i].seen[k].name = k

\* two names in the store, one of them published twice
C16_Witness ==
    /\ DOMAIN player_data = {"Alice", "Bob"}
    /\ \E i, j \in 1..Len(log) :
          /\ i < j
          /\ IsPublish(log[i]) /\ IsPublish(log[j])
          /\ log[i].body.name = log[j].body.name
          /\ log[i].body # log[j].body

\* ------------------------------------------------------------------ C15
\* C15: with no enqueue going on, the i-th poll finds a command exactly when
\* the queue started with at least i commands; its result then differs from
\* {"command": None}, the result of a poll that finds the queue empty, also
\* for a command without target and without args.
C15_NoneIsDistinct ==
    \A i \in 1..Len(log) :
        log[i].op = "poll" =>
            IF i <= Len(queue0)
            THEN /\ log[i].resp # [command |-> None]
                 /\ "command" \in DOMAIN log[i].resp
                 /\ log[i].resp.command # None
            ELSE log[i].resp = [command |-> None]

\* a command without target and without args was delivered and the next
\* poll reported none
C15_Witness ==
    \E i \in 1..Len(log) :
        /\ i + 1 <= Len(log)
        /\ IsDelivery(log[i])
        /\ log[i].resp.command[1].player = None
        /\ log[i].resp.command[1].args = << >>
        /\ log[i + 1].resp = [command |-> None]

\* ------------------------------------------------------------------ C17
\* C17: under fair scheduling every publish-state and read-states request
\* that arrived completes, and whenever no request is inside the store's
\* critical section the lock is free.
C17_StoreOpsComplete ==
    /\ \A r \in Reqs : (pc[r] # "idle") ~> (pc[r] = "idle")
    /\ []((\A r \in Reqs : ~InStoreSection(r)) => player_data_lock = FALSE)

\* a stored publish, a rejected publish and a read have all completed, no
\* request is in flight and the lock is free
C17_Witness ==
    /\ \E i \in 1..Len(log) : IsPublish(log[i])
    /\ \E i \in 1..Len(log) : log[i].op = "publish" /\ Rejected(log[i])
    /\ \E i \in 1..Len(log) : log[i].op = "read"
    /\ \A r \in Reqs : pc[r] = "idle"
    /\ player_data_lock = FALSE

\* ------------------------------------------------------------------ C19
\* the command an inventory-change body asks for: target = the body's player,
\* name "inventory_edit", args [action, item]
WantInventory(b) ==
    [player |-> b.player, command |-> "inventory_edit",
     args |-> <<b.action[1], b.item[1]>>]

GoodAction(b) == b.action \in {Some("add"), Some("remove")}

IsInventory(e) == e.op = "inventory" /\ ~Rejected(e)

\* the inventory commands that were appended by requests that have not
\* returned yet
InventoryInFlight == Cardinality({r \in Reqs : pc[r] = "L184"})

\* C19: an inventory change whose action is neither "add" nor "remove" is
\* answered 400 and none of its steps changes the queue; one whose action is
\* "add" or "remove" is answered with the command {player, "inventory_edit",
\* [action, item]}, one of its steps appends exactly that command at the tail
\* and its other steps leave the queue alone, so that the inventory commands
\* ever queued are one per accepted request.
C19_InventoryChange ==
    /\ [](\A i \in 1..Len(log) :
             IsInventory(log[i]) =>
                IF GoodAction(log[i].body)
                THEN log[i].resp = [status |-> "queued",
                                    command |-> WantInventory(log[i].body)]
                ELSE /\ log[i].resp.status_code = 400
                     /\ log[i].resp.content = [error |-> "Invalid action"])
    /\ [][\A r \in Reqs :
            (op[r] = "inventory" /\ pc[r] # "idle" /\ pc'[r] # pc[r]) =>
                IF pc[r] = "L183"
                THEN /\ GoodAction(req[r][1].body)
                     /\ command_queue' = Append(command_queue, WantInventory(req[r][1].body))
                ELSE command_queue' = command_queue]_vars
    /\ [](LET H == Delivered \o command_queue
              edits == {i \in 1..Len(H) : H[i].command = "inventory_edit"}
              acked == {i \in 1..Len(log) : IsInventory(log[i]) /\ GoodAction(log[i].body)}
          IN  Cardinality(edits) = Cardinality(acked) + InventoryInFlight)

\* an inventory change with action "drop" was answered 400, one with action
\* "remove" was answered with its command, and that command is at the tail
\* of the queue behind a submitted command
C19_Witness ==
    /\ \E i \in 1..Len(log) : IsInventory(log[i]) /\ ~GoodAction(log[i].body)
    /\ \E i \in 1..Len(log) :
          /\ IsInventory(log[i]) /\ log[i].body.action = Some("remove")
          /\ Len(command_queue) = 2
          /\ command_queue[2] = log[i].resp.command
          /\ command_queue[1].command = "give"

\* ------------------------------------------------------------------ C18
\* the commands of a regear are the only ones without a player key
IsGear(c) == "player" \notin DOMAIN c

\* the number of commands a regear that has not returned yet has appended
GearAppended(r) ==
    IF pc[r] \in {"L288", "L291"} THEN req[r][1].i - 1 ELSE 0

\* H[s..] starts with the first k commands of the regear block of player p
BlockAt(H, s, p, k) ==
    /\ s >= 1 /\ s + k - 1 <= Len(H)
    /\ \A m \in 1..k : H[s + m - 1] = armor_commands(p)[m]

\* the first command of a regear's list, for the player it names
IsHelmet(c) == IsGear(c) /\ c = armor_commands(c.args[1])[1]

\* the regear block that starts at position s of H is whole, or it ends with
\* H while the regear that appends it is still in its loop
WholeOrGrowing(H, s) ==
    LET p == H[s].args[1]
    IN  \/ BlockAt(H, s, p, 15)
        \/ \E r \in Reqs :
              /\ pc[r] = "L288" /\ req[r][1].player_name = p
              /\ GearAppended(r) = Len(H) - s + 1
              /\ BlockAt(H, s, p, GearAppended(r))

\* the commands a regear that has not returned yet has appended so far
GearInFlight ==
    IF \E r \in Reqs : GearAppended(r) > 0
    THEN GearAppended(CHOOSE r \in Reqs : GearAppended(r) > 0)
    ELSE 0

\* the helmet a regear gives
EnchantedHelmet ==
    "diamond_helmet{Enchantments:[{id:\"minecraft:protection\",lvl:3},{id:\"minecraft:unbreaking\",lvl:3},{id:\"minecraft:respiration\",lvl:3},{id:\"minecraft:aqua_affinity\",lvl:1}]}"

RegearsDone == {i \in 1..Len(log) : log[i].op = "regear"}

\* C18: in the sequence of all commands ever queued (those handed out, then
\* those still queued) every helmet of a regear starts a block of 15 equal to
\* the regear's list, helmet first and arrows last, every other command of a
\* regear directly follows one, and there are 15 of them and one helmet for
\* each regear, so the blocks are all there is and nothing lies between their
\* commands; a block is incomplete only while its regear is appending it, and
\* while it is no other request is inside a handler or takes a step of one,
\* so no poll tests or pops the queue then; every regear reports 15 items and
\* the queue received 15 commands for each.
C18_RegearIsOneBlock ==
    /\ [](LET H == Delivered \o command_queue
              gear == {j \in 1..Len(H) : IsGear(H[j])}
              helmets == {j \in gear : IsHelmet(H[j])}
          IN  /\ \A j \in helmets : WholeOrGrowing(H, j)
              /\ \A j \in gear \ helmets : j - 1 \in gear
              /\ Cardinality(gear) = 15 * Cardinality(RegearsDone) + GearInFlight
              /\ Cardinality(helmets) = Cardinality(RegearsDone)
                                          + (IF GearInFlight > 0 THEN 1 ELSE 0))
    /\ [](\A i \in RegearsDone :
             /\ log[i].resp.items_given = 15
             /\ armor_commands(log[i].resp.player)[1].args
                    = <<log[i].resp.player, EnchantedHelmet, "1">>
             /\ armor_commands(log[i].resp.player)[15].args
                    = <<log[i].resp.player, "arrow", "64">>)
    /\ [](\A r1, r2 \in Reqs :
             (r1 # r2 /\ pc[r1] \in {"L288", "L291"}) => pc[r2] \in {"idle", "pending"})
    /\ [][\A r1, r2 \in Reqs :
            (r1 # r2 /\ pc[r1] = "L288") =>
                (pc'[r2] = pc[r2] \/ (pc[r2] = "idle" /\ pc'[r2] = "pending"))]_vars

\* a regear for Alice has returned, a command submitted after it is queued
\* behind the block, and a poll was handed the helmet: 14 commands of the
\* block and the submitted one are left
C18_Witness ==
    /\ \E i \in RegearsDone : log[i].resp.player = "Alice"
    /\ Delivered = <<armor_commands("Alice")[1]>>
    /\ Len(command_queue) = 15
    /\ ~IsGear(command_queue[15])
    /\ command_queue[14] = armor_commands("Alice")[15]

\* ------------------------------------------------------------------ C14
\* the operations on the queue: submit, poll and the convenience enqueues
QueueOps == {"submit", "poll", "inventory", "regear"} \cup EnqueueOps

\* request r has arrived and has not returned
InFlight(r) == pc[r] # "idle"

\* the next step of a queue operation
QueueStep(r) ==
    \/ receive_command_enter(r) \/ receive_command_append(r) \/ receive_command_return(r)
    \/ get_next_command_enter(r) \/ get_next_command_test(r) \/ get_next_command_pop(r)
    \/ change_inventory_enter(r) \/ change_inventory_test(r)
    \/ change_inventory_append(r) \/ change_inventory_return(r)
    \/ regear_player_enter(r) \/ regear_player_append(r) \/ regear_player_return(r)
    \/ sabotage_player(r) \/ unsabotage_player(r)
    \/ set_player_ability_damage(r) \/ set_player_ability_duration(r)
    \/ set_player_flame(r) \/ upgrade_player_flame(r)
    \/ downgrade_player_flame(r) \/ give_flame_item(r)

\* C14: a queue operation can always proceed while a store operation holds
\* the store lock: whenever the lock is held, a queue operation that is in
\* flight can take its next step.
C14_QueueProceedsUnderLock ==
    \A r \in Reqs :
        (player_data_lock /\ InFlight(r) /\ op[r] \in QueueOps) => ENABLED QueueStep(r)
====
